---- MODULE Spec2Model ----
(***************************************************************************)
(* A model of spawn.py: main() loads the JSON config, optionally backs up, *)
(* optionally initialises the experiment tracker, selects the device and   *)
(* hands main_worker to mp.spawn; main_worker() prepares one process and   *)
(* runs the epoch loop.                                                    *)
(*                                                                         *)
(* Two specifications share the definitions below.                         *)
(*   Spec        the program as launched: mp.spawn calls                   *)
(*               main_worker(i, ngpus_per_node, args) (line 63) although   *)
(*               main_worker declares (gpu, ngpus_per_node) (line 65).     *)
(*   SpecWorker  main_worker called with the two parameters it declares,   *)
(*               once per index, and the module-level name `args` it reads *)
(*               either unbound or bound to a settings dictionary.         *)
(***************************************************************************)
EXTENDS Integers, Sequences, FiniteSets, TLC

\* ------------------------------------------------------------------ bounds
MaxGpus == 2
MaxEpochs == 2
MaxMetric == 1
NumValues == 2

\* ------------------------------------------------------------- config file
\* The settings main_worker reads from `args`.
SettingKeys ==
    {"img_size", "srcDir", "batch_size", "num_workers", "model",
     "learning_rate", "epochs", "saveDir"}

\* A settings dictionary: every setting has value v, epochs has value e.
Settings(v, e) == [k \in SettingKeys |-> IF k = "epochs" THEN e ELSE v]

SettingsDicts == {Settings(v, e) : v \in 1..NumValues, e \in 0..MaxEpochs}

\* args["gpus"] values: one device, a device list, the cpu.
GpuStrings == {"0", "0,1", "cpu"}

\* A config file: the settings, args["mode"] and args["gpus"].
Config(b, t, g, d) ==
    [k \in SettingKeys \cup {"mode", "gpus"} |->
        IF k = "mode" THEN [backup |-> b, Train |-> t]
        ELSE IF k = "gpus" THEN g
        ELSE d[k]]

\* What json.load can return for the file named by --config.
ConfigFiles ==
    {Config(b, t, g, d) : b \in {"True", "False"}, t \in {"True", "False"},
                          g \in GpuStrings, d \in SettingsDicts}

\* The parameters main_worker declares.
WorkerParams == <<"gpu", "ngpus_per_node">>

RendezvousAddr == "tcp://127.0.0.1:3333"

Workers == 0..(MaxGpus - 1)

MetricVals == 0..MaxMetric

\* Sample return values of train and of val: the dictionaries' keys are those the
\* loop reads (lines 119-135); a higher accuracy comes with a lower loss.
TrainResults == {[acc |-> m, loss |-> MaxMetric - m] : m \in MetricVals}
ValResults == {[val_acc |-> m, val_loss |-> MaxMetric - m] : m \in MetricVals}

EmptyDict == [k \in {} |-> 0]

\* dict.update: the keys of d2 override those of d1.
DictUpdate(d1, d2) ==
    [k \in (DOMAIN d1) \cup (DOMAIN d2) |-> IF k \in DOMAIN d2 THEN d2[k] ELSE d1[k]]

VARIABLES
    json,        \* the content of the config file
    gargs,       \* the module-level name `args` as main_worker sees it: <<>> unbound, <<d>> bound to d
    mpc,         \* main's position
    margs,       \* main's local `args`: <<>> the parsed command line, <<cfg>> after json.load
    mlog,        \* the calls main has made, in order
    wandbInit,   \* wandb.init has been called
    cudaEnv,     \* os.environ['CUDA_VISIBLE_DEVICES']: "" unset
    ngpus,       \* main's ngpus_per_node
    started,     \* number of processes mp.spawn has started
    actuals,     \* per process: the positional arguments of its main_worker call
    wpc,         \* per process: position in main_worker
    err,         \* per process: "" or the exception that ended it
    params,      \* per process: <<>> before the call is bound, then <<gpu, ngpus_per_node>>
    logger,      \* per process: local `logger` is bound
    loggerUses,  \* per process: number of logger.info calls
    pgroup,      \* per process: <<>> or <<the init_process_group call>>
    sampler,     \* per process: "unset", "none", "distributed"
    wrapped,     \* per process: model is wrapped in DDP
    used,        \* per process: the <<key, value>> settings read so far
    nepochs,     \* per process: the length of range(args["epochs"])
    epoch,       \* per process: loop variable
    bestValLoss, \* per process: best_val_loss
    bestValAcc,  \* per process: best_val_acc
    metrics,     \* per process: metrics_summary
    isBest,      \* per process: <<is_best_loss, is_best_acc>>
    calls,       \* per process: the train/val/save_checkpoint/wandb.log calls made, in order
    trackerCalls,\* per process: the wandb.watch / wandb.finish calls made, in order
    checkpoints, \* the save_checkpoint calls received, in order
    wandbLog,    \* the wandb.log records received, in order
    trainHistory,\* per process: what train has returned, epoch by epoch
    valHistory   \* per process: what val has returned, epoch by epoch

mainVars == <<json, mpc, margs, mlog, wandbInit, cudaEnv, ngpus, started>>
procVars == <<actuals, wpc, err, params>>
prepVars == <<logger, loggerUses, pgroup, sampler, wrapped, used, trackerCalls>>
loopVars == <<nepochs, epoch, bestValLoss, bestValAcc, metrics, isBest, calls,
              checkpoints, wandbLog, trainHistory, valHistory>>
vars == <<gargs, mainVars, procVars, prepVars, loopVars>>

\* ------------------------------------------------------------------- Init
InitCommon ==
    /\ json \in ConfigFiles
    /\ mpc = "load"
    /\ margs = <<>>
    /\ mlog = <<>>
    /\ wandbInit = FALSE
    /\ cudaEnv = ""
    /\ ngpus = 0
    /\ started = 0
    /\ actuals = [i \in Workers |-> <<>>]
    /\ wpc = [i \in Workers |-> "none"]
    /\ err = [i \in Workers |-> ""]
    /\ params = [i \in Workers |-> <<>>]
    /\ logger = [i \in Workers |-> FALSE]
    /\ loggerUses = [i \in Workers |-> 0]
    /\ pgroup = [i \in Workers |-> <<>>]
    /\ sampler = [i \in Workers |-> "unset"]
    /\ wrapped = [i \in Workers |-> FALSE]
    /\ used = [i \in Workers |-> {}]
    /\ nepochs = [i \in Workers |-> 0]
    /\ epoch = [i \in Workers |-> 0]
    /\ bestValLoss = [i \in Workers |-> 0]
    /\ bestValAcc = [i \in Workers |-> 0]
    /\ metrics = [i \in Workers |-> EmptyDict]
    /\ isBest = [i \in Workers |-> <<FALSE, FALSE>>]
    /\ calls = [i \in Workers |-> <<>>]
    /\ trackerCalls = [i \in Workers |-> <<>>]
    /\ checkpoints = <<>>
    /\ wandbLog = <<>>
    /\ trainHistory = [i \in Workers |-> <<>>]
    /\ valHistory = [i \in Workers |-> <<>>]

\* The program as launched: a spawned process imports the module under another
\* name, so lines 141-146 do not run in it and `args` is unbound there.
Init ==
    /\ InitCommon
    /\ gargs = <<>>

\* ------------------------------------------------------------------- main
\* lines 44-45: args = json.load(f) rebinds main's local name.
LoadConfig ==
    /\ mpc = "load"
    /\ margs' = <<json>>
    /\ mpc' = "backup"
    /\ UNCHANGED <<json, gargs, mlog, wandbInit, cudaEnv, ngpus, started,
                   procVars, prepVars, loopVars>>

\* Mutant of BackupWanted: the string tested for truth, so "False" counts as set.
BackupTruthy(cfg) == cfg["mode"].backup # ""

\* line 46
BackupWanted(cfg) == cfg["mode"].backup = "True"

\* lines 46-47
Backup ==
    /\ mpc = "backup"
    /\ mlog' = IF BackupWanted(margs[1]) THEN Append(mlog, "backup") ELSE mlog
    /\ mpc' = "wandb"
    /\ UNCHANGED <<json, gargs, margs, wandbInit, cudaEnv, ngpus, started,
                   procVars, prepVars, loopVars>>

\* line 52
TrainWanted(cfg) == cfg["mode"].Train = "True"

\* lines 52-54
WandbInit ==
    /\ mpc = "wandb"
    /\ IF TrainWanted(margs[1])
         THEN /\ wandbInit' = TRUE
              /\ mlog' = mlog \o <<"wandb.init", "wandb.config.update">>
         ELSE UNCHANGED <<wandbInit, mlog>>
    /\ mpc' = "device"
    /\ UNCHANGED <<json, gargs, margs, cudaEnv, ngpus, started,
                   procVars, prepVars, loopVars>>

\* lines 31-40 and 56-59. cuda is torch.cuda.is_available(); the assertion of
\* line 38 ends main when a device list is named and CUDA is unavailable.
SelectDevice(cuda) ==
    /\ mpc = "device"
    /\ IF margs[1]["gpus"] = "0"
         THEN \* len(args['gpus']) <= 1: torch.device('cuda:' + gpus)
              /\ mpc' = "count"
              /\ UNCHANGED cudaEnv
         ELSE IF margs[1]["gpus"] = "cpu"
           THEN /\ cudaEnv' = "-1"
                /\ mpc' = "count"
           ELSE /\ cudaEnv' = margs[1]["gpus"]
                /\ mpc' = IF cuda THEN "count" ELSE "assert_failed"
    /\ UNCHANGED <<json, gargs, margs, mlog, wandbInit, ngpus, started,
                   procVars, prepVars, loopVars>>

\* line 61: n is what torch.cuda.device_count() returns (no device is visible
\* once CUDA_VISIBLE_DEVICES is -1).
DeviceCount(n) ==
    /\ mpc = "count"
    /\ cudaEnv = "-1" => n = 0
    /\ ngpus' = n
    /\ mpc' = "spawn"
    /\ mlog' = Append(mlog, "device_count")
    /\ UNCHANGED <<json, gargs, margs, wandbInit, cudaEnv, started,
                   procVars, prepVars, loopVars>>

\* line 63: the positional arguments process i calls main_worker with: fn(i, *args).
SpawnArgs(i) == <<i, ngpus, margs[1]>>

\* line 63: mp.spawn starts process i, i = 0 .. nprocs-1 in order.
StartProcess ==
    /\ mpc = "spawn"
    /\ started < ngpus
    /\ actuals' = [actuals EXCEPT ![started] = SpawnArgs(started)]
    /\ wpc' = [wpc EXCEPT ![started] = "call"]
    /\ started' = started + 1
    /\ mlog' = Append(mlog, "spawn")
    /\ UNCHANGED <<json, gargs, mpc, margs, wandbInit, cudaEnv, ngpus,
                   err, params, prepVars, loopVars>>

Alive(i) == wpc[i] \notin {"none", "done", "raised", "killed"}

\* line 63: mp.spawn joins. It returns when every process has exited; as soon as one
\* process has raised it terminates the others and raises in main.
Join ==
    /\ mpc = "spawn"
    /\ started = ngpus
    /\ \/ \E i \in Workers : wpc[i] = "raised"
       \/ \A i \in Workers : ~Alive(i)
    /\ mpc' = IF \E i \in Workers : wpc[i] = "raised" THEN "spawn_failed" ELSE "done"
    /\ wpc' = [i \in Workers |-> IF Alive(i) THEN "killed" ELSE wpc[i]]
    /\ UNCHANGED <<json, gargs, margs, mlog, wandbInit, cudaEnv, ngpus, started,
                   actuals, err, params, prepVars, loopVars>>

\* ------------------------------------------------------------ main_worker
\* line 65: binding the positional arguments to the declared parameters; a call with
\* another number of arguments raises TypeError before the body starts.
Bind(i) ==
    /\ wpc[i] = "call"
    /\ IF Len(actuals[i]) = Len(WorkerParams)
         THEN /\ params' = [params EXCEPT ![i] = <<actuals[i][1], actuals[i][2]>>]
              /\ wpc' = [wpc EXCEPT ![i] = "logger"]
              /\ UNCHANGED err
         ELSE /\ wpc' = [wpc EXCEPT ![i] = "raised"]
              /\ err' = [err EXCEPT ![i] = "TypeError"]
              /\ UNCHANGED params
    /\ UNCHANGED <<gargs, mainVars, actuals, prepVars, loopVars>>

\* The process is executing, or has executed, the body of main_worker.
Entered(i) == params[i] # <<>>
Gpu(i) == params[i][1]
NgpusPerNode(i) == params[i][2]

\* Mutant of IsMainWorker: the test gpu == 0 dropped.
IsAnyWorker(i) == (NgpusPerNode(i) = 1) \/ (NgpusPerNode(i) > 1)

\* lines 66, 99, 121, 137: the condition that guards the shared outputs.
IsMainWorker(i) == (NgpusPerNode(i) = 1) \/ (NgpusPerNode(i) > 1 /\ Gpu(i) = 0)

\* args[k] inside main_worker: the module-level name.
ArgsBound == gargs # <<>>
Args(k) == gargs[1][k]

\* Mutant of LoopNext: the loop runs one epoch too many.
LoopNextInclusive(i, e) == IF e + 1 <= nepochs[i] THEN "train" ELSE "finish"

\* line 116: the loop's next position once the body of iteration e is over.
LoopNext(i, e) == IF e + 1 < nepochs[i] THEN "train" ELSE "finish"

\* lines 66-68
MakeLogger(i) ==
    /\ wpc[i] = "logger"
    /\ logger' = [logger EXCEPT ![i] = IF IsMainWorker(i) THEN TRUE ELSE @]
    /\ wpc' = [wpc EXCEPT ![i] = "pgroup"]
    /\ UNCHANGED <<gargs, mainVars, actuals, err, params, loggerUses, pgroup,
                   sampler, wrapped, used, trackerCalls, loopVars>>

\* line 72: the keyword arguments of init_process_group.
ProcessGroupCall(i) ==
    [init_method |-> RendezvousAddr, world_size |-> NgpusPerNode(i), rank |-> Gpu(i)]

\* Mutant of MultiDevice: a single device treated as distributed too.
MultiDeviceFromOne(i) == NgpusPerNode(i) >= 1

\* lines 71, 86, 104
MultiDevice(i) == NgpusPerNode(i) > 1

\* lines 70-72
InitProcessGroup(i) ==
    /\ wpc[i] = "pgroup"
    /\ pgroup' = [pgroup EXCEPT ![i] = IF MultiDevice(i) THEN <<ProcessGroupCall(i)>> ELSE @]
    /\ wpc' = [wpc EXCEPT ![i] = "data"]
    /\ UNCHANGED <<gargs, mainVars, actuals, err, params, logger, loggerUses,
                   sampler, wrapped, used, trackerCalls, loopVars>>

\* The settings lines 74-97 read.
DataKeys == {"img_size", "srcDir", "batch_size", "num_workers", "model"}

\* lines 74-97: transforms, datasets, sampler, loaders, model. The first read of
\* `args` (line 75) raises NameError when the name is unbound.
BuildData(i) ==
    /\ wpc[i] = "data"
    /\ IF ArgsBound
         THEN /\ used' = [used EXCEPT ![i] = @ \cup {<<k, Args(k)>> : k \in DataKeys}]
              /\ sampler' = [sampler EXCEPT ![i] = IF MultiDevice(i) THEN "distributed" ELSE "none"]
              /\ wpc' = [wpc EXCEPT ![i] = "watch"]
              /\ UNCHANGED err
         ELSE /\ wpc' = [wpc EXCEPT ![i] = "raised"]
              /\ err' = [err EXCEPT ![i] = "NameError"]
              /\ UNCHANGED <<used, sampler>>
    /\ UNCHANGED <<gargs, mainVars, actuals, params, logger, loggerUses,
                   pgroup, wrapped, trackerCalls, loopVars>>

\* lines 99-102: two logger.info calls, then wandb.watch. Using `logger` where line 67
\* did not bind it raises UnboundLocalError.
Watch(i) ==
    /\ wpc[i] = "watch"
    /\ IF IsMainWorker(i)
         THEN IF logger[i]
                THEN /\ loggerUses' = [loggerUses EXCEPT ![i] = @ + 2]
                     /\ trackerCalls' = [trackerCalls EXCEPT ![i] = Append(@, "watch")]
                     /\ wpc' = [wpc EXCEPT ![i] = "ddp"]
                     /\ UNCHANGED err
                ELSE /\ wpc' = [wpc EXCEPT ![i] = "raised"]
                     /\ err' = [err EXCEPT ![i] = "UnboundLocalError"]
                     /\ UNCHANGED <<loggerUses, trackerCalls>>
         ELSE /\ wpc' = [wpc EXCEPT ![i] = "ddp"]
              /\ UNCHANGED <<loggerUses, trackerCalls, err>>
    /\ UNCHANGED <<gargs, mainVars, actuals, params, logger, pgroup,
                   sampler, wrapped, used, loopVars>>

\* lines 104-106
WrapDDP(i) ==
    /\ wpc[i] = "ddp"
    /\ wrapped' = [wrapped EXCEPT ![i] = IF MultiDevice(i) THEN TRUE ELSE @]
    /\ wpc' = [wpc EXCEPT ![i] = "optim"]
    /\ UNCHANGED <<gargs, mainVars, actuals, err, params, logger, loggerUses,
                   pgroup, sampler, used, trackerCalls, loopVars>>

\* line 113
InitialBestValLoss == 0
\* line 114
InitialBestValAcc == 0

\* lines 108-116: optimizer, criterion, the two best_* locals, and range(args["epochs"]).
BuildOptimizer(i) ==
    /\ wpc[i] = "optim"
    /\ used' = [used EXCEPT ![i] = @ \cup {<<k, Args(k)>> : k \in {"learning_rate", "epochs"}}]
    /\ bestValLoss' = [bestValLoss EXCEPT ![i] = InitialBestValLoss]
    /\ bestValAcc' = [bestValAcc EXCEPT ![i] = InitialBestValAcc]
    /\ nepochs' = [nepochs EXCEPT ![i] = Args("epochs")]
    /\ epoch' = [epoch EXCEPT ![i] = 0]
    /\ wpc' = [wpc EXCEPT ![i] = IF 0 < Args("epochs") THEN "train" ELSE "finish"]
    /\ UNCHANGED <<gargs, mainVars, actuals, err, params, logger, loggerUses,
                   pgroup, sampler, wrapped, trackerCalls, metrics, isBest, calls,
                   checkpoints, wandbLog, trainHistory, valHistory>>

\* line 117: r is what train returns.
TrainStep(i, r) ==
    /\ wpc[i] = "train"
    /\ metrics' = [metrics EXCEPT ![i] = r]
    /\ trainHistory' = [trainHistory EXCEPT ![i] = Append(@, r)]
    /\ calls' = [calls EXCEPT ![i] = Append(@, <<"train", epoch[i]>>)]
    /\ wpc' = [wpc EXCEPT ![i] = "val"]
    /\ UNCHANGED <<gargs, mainVars, actuals, err, params, prepVars, nepochs,
                   epoch, bestValLoss, bestValAcc, isBest, checkpoints, wandbLog,
                   valHistory>>

\* line 119
IsBestLoss(summary, best) == summary["val_loss"] < best
\* line 120
IsBestAcc(summary, best) == summary["val_acc"] > best

\* lines 118-120: r is what val returns.
ValStep(i, r) ==
    /\ wpc[i] = "val"
    /\ LET summary == DictUpdate(metrics[i], r) IN
         /\ metrics' = [metrics EXCEPT ![i] = summary]
         /\ isBest' = [isBest EXCEPT ![i] = <<IsBestLoss(summary, bestValLoss[i]),
                                              IsBestAcc(summary, bestValAcc[i])>>]
    /\ valHistory' = [valHistory EXCEPT ![i] = Append(@, r)]
    /\ calls' = [calls EXCEPT ![i] = Append(@, <<"val", epoch[i]>>)]
    /\ wpc' = [wpc EXCEPT ![i] = "save"]
    /\ UNCHANGED <<gargs, mainVars, actuals, err, params, prepVars, nepochs,
                   epoch, bestValLoss, bestValAcc, checkpoints, wandbLog,
                   trainHistory>>

\* lines 122-128: the keyword arguments of save_checkpoint, and the caller.
CheckpointCall(i) ==
    [epoch |-> epoch[i] + 1, val_acc |-> metrics[i]["val_acc"],
     is_best |-> isBest[i][1], checkpoint |-> Args("saveDir"), by |-> i]

\* lines 121-128: the main worker saves a checkpoint; the others skip lines 122-136.
SaveCheckpoint(i) ==
    /\ wpc[i] = "save"
    /\ IF IsMainWorker(i)
         THEN /\ checkpoints' = Append(checkpoints, CheckpointCall(i))
              /\ used' = [used EXCEPT ![i] = @ \cup {<<"saveDir", Args("saveDir")>>}]
              /\ calls' = [calls EXCEPT ![i] = Append(@, <<"save_checkpoint", epoch[i] + 1>>)]
              /\ wpc' = [wpc EXCEPT ![i] = "log"]
              /\ UNCHANGED epoch
         ELSE /\ epoch' = [epoch EXCEPT ![i] = @ + 1]
              /\ wpc' = [wpc EXCEPT ![i] = LoopNext(i, epoch[i])]
              /\ UNCHANGED <<checkpoints, used, calls>>
    /\ UNCHANGED <<gargs, mainVars, actuals, err, params, logger, loggerUses,
                   pgroup, sampler, wrapped, trackerCalls, nepochs, bestValLoss,
                   bestValAcc, metrics, isBest, wandbLog, trainHistory, valHistory>>

\* Mutant of LogRecord: the record numbered like the checkpoint, epoch + 1.
LogRecordNextEpoch(i) ==
    [epoch |-> epoch[i] + 1, acc |-> metrics[i]["acc"], loss |-> metrics[i]["loss"],
     val_acc |-> metrics[i]["val_acc"], val_loss |-> metrics[i]["val_loss"], by |-> i]

\* lines 130-136: the record handed to wandb.log, and the caller.
LogRecord(i) ==
    [epoch |-> epoch[i], acc |-> metrics[i]["acc"], loss |-> metrics[i]["loss"],
     val_acc |-> metrics[i]["val_acc"], val_loss |-> metrics[i]["val_loss"], by |-> i]

\* lines 130-136, then the next iteration of line 116.
WandbLog(i) ==
    /\ wpc[i] = "log"
    /\ wandbLog' = Append(wandbLog, LogRecord(i))
    /\ calls' = [calls EXCEPT ![i] = Append(@, <<"wandb.log", epoch[i]>>)]
    /\ epoch' = [epoch EXCEPT ![i] = @ + 1]
    /\ wpc' = [wpc EXCEPT ![i] = LoopNext(i, epoch[i])]
    /\ UNCHANGED <<gargs, mainVars, actuals, err, params, prepVars, nepochs,
                   bestValLoss, bestValAcc, metrics, isBest, checkpoints,
                   trainHistory, valHistory>>

\* lines 137-139: wandb.finish, then one logger.info call.
Finish(i) ==
    /\ wpc[i] = "finish"
    /\ IF IsMainWorker(i)
         THEN /\ trackerCalls' = [trackerCalls EXCEPT ![i] = Append(@, "finish")]
              /\ IF logger[i]
                   THEN /\ loggerUses' = [loggerUses EXCEPT ![i] = @ + 1]
                        /\ wpc' = [wpc EXCEPT ![i] = "done"]
                        /\ UNCHANGED err
                   ELSE /\ wpc' = [wpc EXCEPT ![i] = "raised"]
                        /\ err' = [err EXCEPT ![i] = "UnboundLocalError"]
                        /\ UNCHANGED loggerUses
         ELSE /\ wpc' = [wpc EXCEPT ![i] = "done"]
              /\ UNCHANGED <<trackerCalls, loggerUses, err>>
    /\ UNCHANGED <<gargs, mainVars, actuals, params, logger, pgroup,
                   sampler, wrapped, used, loopVars>>

\* The body of main_worker, lines 66-139.
WorkerBody(i) ==
    \/ MakeLogger(i)
    \/ InitProcessGroup(i)
    \/ BuildData(i)
    \/ Watch(i)
    \/ WrapDDP(i)
    \/ BuildOptimizer(i)
    \/ \E r \in TrainResults : TrainStep(i, r)
    \/ \E r \in ValResults : ValStep(i, r)
    \/ SaveCheckpoint(i)
    \/ WandbLog(i)
    \/ Finish(i)

\* ------------------------------------------------------- the two programs
MainSteps ==
    \/ LoadConfig
    \/ Backup
    \/ WandbInit
    \/ \E cuda \in BOOLEAN : SelectDevice(cuda)
    \/ \E n \in 0..MaxGpus : DeviceCount(n)
    \/ Join

\* The program as launched. Every process raises in Bind, so no step of WorkerBody
\* is ever enabled and Next leaves them out.
Next ==
    \/ MainSteps
    \/ StartProcess
    \/ \E i \in Workers : Bind(i)

Spec == Init /\ [][Next]_vars

\* main_worker called as declared: main_worker(i, ngpus_per_node) for i = 0 .. nprocs-1.
DeclaredArgs(i) == <<i, ngpus>>

StartDeclared ==
    /\ mpc = "spawn"
    /\ started < ngpus
    /\ actuals' = [actuals EXCEPT ![started] = DeclaredArgs(started)]
    /\ wpc' = [wpc EXCEPT ![started] = "call"]
    /\ started' = started + 1
    /\ mlog' = Append(mlog, "spawn")
    /\ UNCHANGED <<json, gargs, mpc, margs, wandbInit, cudaEnv, ngpus,
                   err, params, prepVars, loopVars>>

\* The module-level `args` is unbound or bound to some settings dictionary; the
\* config file takes the plain path through main (no backup, one device named).
InitWorker ==
    /\ InitCommon
    /\ ~BackupWanted(json)
    /\ json["gpus"] = "0"
    /\ gargs \in {<<>>} \cup {<<d>> : d \in SettingsDicts}

NextWorker ==
    \/ MainSteps
    \/ StartDeclared
    \/ \E i \in Workers : Bind(i)
    \/ \E i \in Workers : WorkerBody(i)

SpecWorker == InitWorker /\ [][NextWorker]_vars

\* ------------------------------------------------------------------ claims
Count(s, x) == Cardinality({n \in 1..Len(s) : s[n] = x})
IsPrefix(s, t) == Len(s) <= Len(t) /\ \A k \in 1..Len(s) : s[k] = t[k]
Joined == mpc \in {"done", "spawn_failed"}
\* args["epochs"] as main_worker reads it.
EpochsSetting == IF ArgsBound THEN Args("epochs") ELSE 0
\* The positions after line 106.
AfterWrap == {"optim", "train", "val", "save", "log", "finish", "done"}
\* The positions after line 97.
AfterData == {"watch", "ddp"} \cup AfterWrap

\* The calls of one loop iteration, for the main worker and for the others.
EpochCalls(e, main) ==
    <<<<"train", e>>, <<"val", e>>>>
      \o (IF main THEN <<<<"save_checkpoint", e + 1>>, <<"wandb.log", e>>>> ELSE <<>>)

RECURSIVE ExpectedCalls(_, _)
ExpectedCalls(n, main) ==
    IF n = 0 THEN <<>> ELSE ExpectedCalls(n - 1, main) \o EpochCalls(n - 1, main)

RECURSIVE MinOf(_)
MinOf(S) ==
    LET x == CHOOSE y \in S : TRUE
    IN IF S = {x} THEN x
       ELSE LET m == MinOf(S \ {x}) IN IF x < m THEN x ELSE m

RECURSIVE MaxOf(_)
MaxOf(S) ==
    LET x == CHOOSE y \in S : TRUE
    IN IF S = {x} THEN x
       ELSE LET m == MaxOf(S \ {x}) IN IF x > m THEN x ELSE m

\* C1: once mp.spawn has returned or raised, with device_count() = N, exactly the
\* processes 0..N-1 have entered main_worker, process i with gpu = i and
\* ngpus_per_node = N.
C1_OneWorkerPerGpu ==
    Joined =>
      \A i \in Workers :
        IF i < ngpus THEN Entered(i) /\ params[i] = <<i, ngpus>> ELSE ~Entered(i)

C5_BackupFirst ==
    /\ Count(mlog, "backup") =
         IF mpc \notin {"load", "backup"} /\ json["mode"].backup = "True" THEN 1 ELSE 0
    /\ \A n \in 1..Len(mlog) : \A m \in 1..Len(mlog) :
         (mlog[n] = "backup" /\ mlog[m] \in {"wandb.init", "spawn"}) => n < m
    /\ mpc \in {"load", "backup"} => (~wandbInit /\ started = 0)

C5_Witness ==
    /\ Count(mlog, "backup") = 1
    /\ Count(mlog, "wandb.init") = 1
    /\ started = MaxGpus

====
